---- MODULE Spec2Model ----
(***************************************************************************)
(* Model of src/agents/tools/leonardo-tool.ts: the generate_image tool,   *)
(* which submits an image generation to the Leonardo REST API (POST) and  *)
(* polls its status (GET) until a terminal status or until the attempt    *)
(* budget is exhausted.                                                    *)
(*                                                                         *)
(* One asynchronous invocation is modelled per element of Invocations.    *)
(* An action is one continuation of the async function: it runs from the  *)
(* resolution of an awaited promise (fetch, sleep) to the next suspension *)
(* or to the return.  Reading the body of an arrived response (res.json,  *)
(* readResponseText) is folded into the continuation that receives it.    *)
(***************************************************************************)
EXTENDS Integers, Sequences, FiniteSets, TLC

VARIABLES tool, call, net

vars == <<tool, call, net>>

----------------------------------------------------------------------------
(* Program constants *)

POLL_INTERVAL_MS == 2000

POLL_MAX_ATTEMPTS == 30

\* the timeoutSeconds argument execute passes to pollForCompletion
EXECUTE_POLL_TIMEOUT_SECONDS == 60

----------------------------------------------------------------------------
(* Bounds of the model *)

\* pollForCompletion is explored for timeoutSeconds in 0..MaxTimeoutSeconds
MaxTimeoutSeconds == 62

\* longest generated_images list a status response carries
MaxImages == 3

\* longest API key string, configured or in the environment
MaxKeyLen == 3

----------------------------------------------------------------------------
(* Value domains *)

Invocations == {1, 2}

\* the invocation the single-invocation specifications run
Main == CHOOSE i \in Invocations : \A j \in Invocations : i <= j

\* an optional value: <<>> is undefined, <<v>> is v
None == <<>>

Some(v) == <<v>>

Min(a, b) == IF a <= b THEN a ELSE b

JobIds == {"g1", "g2"}

Urls == {"", "a", "b"}

HttpStatuses == {200, 404, 500}

\* Response.statusText
StatusText(status) ==
    CASE status = 200 -> "OK"
      [] status = 404 -> "Not Found"
      [] status = 500 -> "Internal Server Error"
      [] OTHER -> ""

\* Response.ok: the status is in the range 200-299
ResOk(status) == status >= 200 /\ status <= 299

SeqsUpTo(S, n) == UNION {[1..k -> S] : k \in 0..n}

\* GeneratedImage: {id, url}
GeneratedImage(k, url) == [id |-> k, url |-> url]

ImageLists ==
    {[k \in DOMAIN us |-> GeneratedImage(k, us[k])] : us \in SeqsUpTo(Urls, MaxImages)}

----------------------------------------------------------------------------
(* Error messages: a template string is the sequence of its pieces *)

\* readStringParam(params, "prompt", {required: true}) on a missing prompt
PromptRequiredMessage == <<"prompt required">>

SubmitHttpErrorMessageNoStatus(status, text) ==
    <<"Leonardo generation request failed: ",
      IF text # "" THEN text ELSE StatusText(status)>>

\* `Leonardo generation request failed (${res.status}): ${detail.text || res.statusText}`
SubmitHttpErrorMessage(status, text) ==
    <<"Leonardo generation request failed (", ToString(status), "): ",
      IF text # "" THEN text ELSE StatusText(status)>>

NoGenerationIdMessage == <<"Leonardo: no generationId in response">>

\* `Leonardo poll error (${res.status}): ${detail.text || res.statusText}`
PollHttpErrorMessage(status, text) ==
    <<"Leonardo poll error (", ToString(status), "): ",
      IF text # "" THEN text ELSE StatusText(status)>>

PollShapeMessage == <<"Leonardo: unexpected poll response shape">>

GenerationFailedMessage == <<"Leonardo generation failed">>

NoImageUrlsMessage == <<"Leonardo generation complete but no image URLs returned">>

\* `Leonardo generation timed out after ${maxAttempts * (POLL_INTERVAL_MS / 1000)} seconds`
TimedOutMessage(maxAttempts) ==
    <<"Leonardo generation timed out after ",
      ToString(maxAttempts * (POLL_INTERVAL_MS \div 1000)), " seconds">>

\* what fetch rejects with: a network failure, or the abort of its timeout signal
FetchRejectMessages == {<<"fetch failed">>, <<"This operation was aborted">>}

\* what res.json() rejects with on a body that is not JSON
JsonSyntaxMessage == <<"Unexpected token in JSON">>

\* reading a property of a null JSON value
NullDataMessage == <<"Cannot read properties of null">>

\* the message contains the piece `piece`
Contains(message, piece) == \E k \in DOMAIN message : message[k] = piece

----------------------------------------------------------------------------
(* What the remote service can answer *)

Rejected(message) == [kind |-> "rejected", message |-> message]

\* a Response: text is its body as readResponseText reads it, json what res.json() gives
Response(status, text, json) ==
    [kind |-> "response", status |-> status, text |-> text, json |-> json]

JsonError == [parse |-> "error"]

JsonNull == [parse |-> "null"]

JsonObject(data) == [parse |-> "object", data |-> data]

ErrorTexts == {"", "quota exceeded"}

\* GenerationResponse
GenerationResponses ==
    {[sdGenerationJob |-> None]}
    \cup {[sdGenerationJob |-> Some([generationId |-> g])] :
            g \in {None} \cup {Some(id) : id \in JobIds \cup {""}}}

\* GenerationStatusResponse
StatusValues == {"PENDING", "COMPLETE", "FAILED", "QUEUED"}

GenerationStatusResponses ==
    {[generations_by_pk |-> None]}
    \cup {[generations_by_pk |-> Some([status |-> Some("COMPLETE"), generated_images |-> im])] :
            im \in {None} \cup {Some(l) : l \in ImageLists}}
    \cup {[generations_by_pk |-> Some([status |-> st, generated_images |-> im])] :
            st \in {None} \cup {Some(v) : v \in StatusValues \ {"COMPLETE"}},
            im \in {None, Some(<<>>)}}

\* the statuses the service answers a served request with, and the others
SuccessStatuses == {s \in HttpStatuses : s \div 100 = 2}

FailureStatuses == HttpStatuses \ SuccessStatuses

ErrorResponses ==
    {Rejected(m) : m \in FetchRejectMessages}
    \cup {Response(s, t, JsonError) : s \in FailureStatuses, t \in ErrorTexts}
    \cup {Response(s, "", j) : s \in SuccessStatuses, j \in {JsonError, JsonNull}}

\* outcomes of the POST /generations call
PostResponses ==
    ErrorResponses
    \cup {Response(s, "", JsonObject(d)) :
            s \in SuccessStatuses, d \in GenerationResponses}

\* outcomes of a GET /generations/{generationId} call
GetResponses ==
    ErrorResponses
    \cup {Response(s, "", JsonObject(d)) :
            s \in SuccessStatuses, d \in GenerationStatusResponses}

----------------------------------------------------------------------------
(* Arguments of execute *)

Prompt == "a red coat on a rainy street"

\* args as Record<string, unknown>: every combination of omitted and in-range
\* arguments, out-of-range numbers, and calls without a prompt
ParamsSet ==
    [prompt : {Some(Prompt)}, num_images : {None, Some(2)}, width : {None, Some(512)},
     height : {None, Some(768)}, preset_style : {None, Some("CINEMATIC")}]
    \cup [prompt : {Some(Prompt)}, num_images : {Some(9)}, width : {Some(2047)},
          height : {None, Some(4)}, preset_style : {None}]
    \cup [prompt : {None}, num_images : {None, Some(2)}, width : {None},
          height : {None}, preset_style : {None}]

NoParams ==
    [prompt |-> None, num_images |-> None, width |-> None, height |-> None,
     preset_style |-> None]

\* a ?? b
OrElse(optional, default) == IF optional = None THEN default ELSE optional[1]

\* readStringParam(params, key): the string, or undefined when it is missing
readStringParam(params, key) == params[key]

RequestBodyDefaultsOnly(params) ==
    [prompt |-> readStringParam(params, "prompt")[1],
     num_images |-> 1,
     width |-> 1024,
     height |-> 1024,
     presetStyle |-> "FASHION"]

\* the request body of the submission
RequestBody(params) ==
    [prompt |-> readStringParam(params, "prompt")[1],
     num_images |-> OrElse(params["num_images"], 1),
     width |-> OrElse(params["width"], 1024),
     height |-> OrElse(params["height"], 1024),
     presetStyle |-> OrElse(readStringParam(params, "preset_style"), "FASHION")]

----------------------------------------------------------------------------
(* The state of one invocation *)

\* jsonResult(payload): the tool result carrying the payload
jsonResult(payload) == payload

NoResult == [pending |-> TRUE]

\* the locals of execute and of pollForCompletion
IdleCall ==
    [pc |-> "idle", entry |-> "none", params |-> NoParams, body |-> None,
     generationId |-> None, pollGenerationId |-> None, timeoutSeconds |-> 0,
     maxAttempts |-> 0, attempt |-> 0, result |-> NoResult]

\* what the network and the timers saw of an invocation; pendingOnly: every
\* status query answered so far reported PENDING
QuietNet ==
    [posts |-> 0, queries |-> 0, sleeps |-> 0, polled |-> {}, pendingOnly |-> TRUE,
     submitResponse |-> None, lastResponse |-> None]

\* data.generations_by_pk.status of a status response that carries a generation
ReportedStatus(r) ==
    IF r.kind = "response" /\ r.json.parse = "object" /\ r.status \in SuccessStatuses
       /\ r.json.data.generations_by_pk # None
    THEN {r.json.data.generations_by_pk[1].status}
    ELSE {}

ExecuteCatchRethrow(message) == [thrown |-> message]

\* catch (error) { return jsonResult({error: error.message, imageUrls: []}) }
ExecuteCatch(message) == jsonResult([error |-> message, imageUrls |-> <<>>])

\* a throw inside execute's try block, or out of pollForCompletion called alone
Throw(c, message) ==
    [c EXCEPT !.pc = "returned",
              !.result = IF c.entry = "execute"
                         THEN ExecuteCatch(message)
                         ELSE [thrown |-> message]]

----------------------------------------------------------------------------
(* pollForCompletion *)

MaxAttemptsUncapped(timeoutSeconds) == (timeoutSeconds * 1000) \div POLL_INTERVAL_MS

MaxAttemptsCapOnly(timeoutSeconds) == POLL_MAX_ATTEMPTS

\* Math.min(POLL_MAX_ATTEMPTS, Math.floor((timeoutSeconds * 1_000) / POLL_INTERVAL_MS))
MaxAttempts(timeoutSeconds) ==
    Min(POLL_MAX_ATTEMPTS, (timeoutSeconds * 1000) \div POLL_INTERVAL_MS)

LoopTestOffByOne(c) ==
    IF c.attempt <= c.maxAttempts
    THEN [c EXCEPT !.pc = "poll_sleep"]
    ELSE Throw(c, TimedOutMessage(c.maxAttempts))

\* the loop test `attempt < maxAttempts` and, when it fails, the throw after the loop
LoopTest(c) ==
    IF c.attempt < c.maxAttempts
    THEN [c EXCEPT !.pc = "poll_sleep"]
    ELSE Throw(c, TimedOutMessage(c.maxAttempts))

\* the call: maxAttempts is computed, attempt = 0, the loop is entered
pollForCompletion(c, generationId, timeoutSeconds) ==
    LoopTest([c EXCEPT !.pollGenerationId = Some(generationId),
                       !.timeoutSeconds = timeoutSeconds,
                       !.maxAttempts = MaxAttempts(timeoutSeconds),
                       !.attempt = 0])

\* `${LEONARDO_API_BASE}/generations/${generationId}`: the job the query asks about
PollTargetFirstJob(c) == "g1"

PollTarget(c) == c.pollGenerationId[1]

\* .map((img) => img.url)
MapUrl(images) == [k \in DOMAIN images |-> images[k].url]

FilterBooleanNone(urls) == urls

\* .filter(Boolean): the empty string is the falsy URL
FilterBoolean(urls) == SelectSeq(urls, LAMBDA u : u # "")

\* return urls: to execute, which returns the success result, or to the direct caller
PollReturn(c, urls) ==
    [c EXCEPT !.pc = "returned",
              !.result = IF c.entry = "execute"
                         THEN jsonResult([generationId |-> c.generationId[1],
                                          imageUrls |-> urls,
                                          count |-> Len(urls)])
                         ELSE [returned |-> urls]]

CompleteNoCheck(c, generation) ==
    PollReturn(c, FilterBoolean(MapUrl(OrElse(generation.generated_images, <<>>))))

\* the branch of status COMPLETE
Complete(c, generation) ==
    LET urls == FilterBoolean(MapUrl(OrElse(generation.generated_images, <<>>)))
    IN  IF Len(urls) = 0 THEN Throw(c, NoImageUrlsMessage) ELSE PollReturn(c, urls)

\* a counter kept at module level: the attempts of every running call add up
NextAttemptShared(c) ==
    LET attempts == {call[j].attempt : j \in Invocations}
        shared == CHOOSE a \in attempts : \A b \in attempts : b <= a
    IN  LoopTest([c EXCEPT !.attempt = shared + 1])

\* attempt++ of the for loop: `attempt` is a local of the call
NextAttempt(c) == LoopTest([c EXCEPT !.attempt = @ + 1])

FailedKeepsPolling(c) == NextAttempt(c)

\* the branch of status FAILED
Failed(c) == Throw(c, GenerationFailedMessage)

PollHttpErrorRetry(c, r) == NextAttempt(c)

\* the branch of !res.ok
PollHttpError(c, r) == Throw(c, PollHttpErrorMessage(r.status, r.text))

OtherStatusStrict(c, generation) ==
    IF generation.status = Some("PENDING")
    THEN NextAttempt(c)
    ELSE Throw(c, PollShapeMessage)

\* any other status, or none: the end of the loop body is reached
OtherStatus(c, generation) == NextAttempt(c)

\* the loop body from the resolution of fetch to the end of the iteration
OnPollResponse(c, r) ==
    IF r.kind = "rejected" THEN Throw(c, r.message)
    ELSE IF ~ResOk(r.status) THEN PollHttpError(c, r)
    ELSE IF r.json = JsonError THEN Throw(c, JsonSyntaxMessage)
    ELSE IF r.json = JsonNull THEN Throw(c, NullDataMessage)
    ELSE LET generation == r.json.data.generations_by_pk
         IN  IF generation = None THEN Throw(c, PollShapeMessage)
             ELSE IF generation[1].status = Some("FAILED") THEN Failed(c)
             ELSE IF generation[1].status = Some("COMPLETE") THEN Complete(c, generation[1])
             ELSE OtherStatus(c, generation[1])

----------------------------------------------------------------------------
(* execute *)

\* the timeoutSeconds execute passes to pollForCompletion
ExecutePollTimeoutMinutes == EXECUTE_POLL_TIMEOUT_SECONDS \div 60

ExecutePollTimeout == EXECUTE_POLL_TIMEOUT_SECONDS

NoGenerationIdUndefinedOnly(generationId) == generationId = None

\* !generationId: undefined and the empty string are falsy
NoGenerationId(generationId) == generationId = None \/ generationId = Some("")

\* the branch of !res.ok
SubmitHttpError(c, r) == Throw(c, SubmitHttpErrorMessage(r.status, r.text))

\* from the resolution of the POST to the first suspension of pollForCompletion
OnSubmitResponse(c, r) ==
    IF r.kind = "rejected" THEN Throw(c, r.message)
    ELSE IF ~ResOk(r.status) THEN SubmitHttpError(c, r)
    ELSE IF r.json = JsonError THEN Throw(c, JsonSyntaxMessage)
    ELSE IF r.json = JsonNull THEN Throw(c, NullDataMessage)
    ELSE LET job == r.json.data.sdGenerationJob
             generationId == IF job = None THEN None ELSE job[1].generationId
         IN  IF NoGenerationId(generationId)
             THEN Throw(c, NoGenerationIdMessage)
             ELSE pollForCompletion([c EXCEPT !.generationId = generationId],
                                    generationId[1], ExecutePollTimeout)

----------------------------------------------------------------------------
(* createLeonardoTool *)

\* a string is the sequence of its characters; " " is the whitespace character
KeyChars == {" ", "k", "e"}

KeyStrings == SeqsUpTo(KeyChars, MaxKeyLen)

RECURSIVE TrimStart(_)
TrimStart(str) ==
    IF str # <<>> /\ Head(str) = " " THEN TrimStart(Tail(str)) ELSE str

RECURSIVE TrimEnd(_)
TrimEnd(str) ==
    IF str # <<>> /\ str[Len(str)] = " "
    THEN TrimEnd(SubSeq(str, 1, Len(str) - 1))
    ELSE str

\* String.prototype.trim
Trim(str) == TrimEnd(TrimStart(str))

\* config.tools.leonardo: an object with or without an apiKey property
LeonardoConfigs ==
    {[fields |-> {}, apiKey |-> None]}
    \cup {[fields |-> {"apiKey"}, apiKey |-> k] : k \in {None} \cup {Some(x) : x \in KeyStrings}}

\* the options of createLeonardoTool: {config?: {tools?: {leonardo?: ...}}}
OptionsSet ==
    {None, Some([config |-> None]), Some([config |-> Some([tools |-> None])]),
     Some([config |-> Some([tools |-> Some([leonardo |-> None])])])}
    \cup {Some([config |-> Some([tools |-> Some([leonardo |-> Some(l)])])]) :
            l \in LeonardoConfigs}

\* process.env["LEONARDO_API_KEY"]
EnvSet == {None} \cup {Some(x) : x \in KeyStrings}

\* (config?.tools)?.leonardo
FromConfig(config) ==
    IF config = None THEN None
    ELSE IF config[1].tools = None THEN None
    ELSE config[1].tools[1].leonardo

\* process.env["LEONARDO_API_KEY"]?.trim() || undefined
FromEnv(env) ==
    IF env = None THEN None
    ELSE IF Trim(env[1]) = <<>> THEN None
    ELSE Some(Trim(env[1]))

resolveLeonardoApiKeyEnvFirst(config, env) ==
    IF FromEnv(env) # None THEN FromEnv(env)
    ELSE LET fromConfig == FromConfig(config)
         IN  IF /\ fromConfig # None
                /\ "apiKey" \in fromConfig[1].fields
                /\ fromConfig[1].apiKey # None
                /\ Trim(fromConfig[1].apiKey[1]) # <<>>
             THEN Some(Trim(fromConfig[1].apiKey[1]))
             ELSE None

\* the key as a string, or None for undefined
resolveLeonardoApiKey(config, env) ==
    LET fromConfig == FromConfig(config)
    IN  IF /\ fromConfig # None
           /\ "apiKey" \in fromConfig[1].fields
           /\ fromConfig[1].apiKey # None
           /\ Trim(fromConfig[1].apiKey[1]) # <<>>
        THEN Some(Trim(fromConfig[1].apiKey[1]))
        ELSE FromEnv(env)

\* the value returned: None for null, or the tool closed over its apiKey
createLeonardoTool(options, env) ==
    LET apiKey == resolveLeonardoApiKey(IF options = None THEN None ELSE options[1].config,
                                        env)
    IN  IF apiKey = None THEN None
        ELSE Some([name |-> "generate_image", apiKey |-> apiKey[1]])

NotCreated == [created |-> FALSE]

Created(options, env) ==
    [created |-> TRUE, options |-> options, env |-> env,
     value |-> createLeonardoTool(options, env)]

\* the configuration the invocations of execute run under
ConfiguredOptions ==
    Some([config |-> Some([tools |-> Some([leonardo |->
        Some([fields |-> {"apiKey"}, apiKey |-> Some(<<"k">>)])])])])

----------------------------------------------------------------------------
(* Actions *)

\* the tool has been created from a configuration that holds a key
Init ==
    /\ tool = Created(ConfiguredOptions, None)
    /\ call = [i \in Invocations |-> IdleCall]
    /\ net = [i \in Invocations |-> QuietNet]

\* the module is loaded and createLeonardoTool has not been called
InitCreate ==
    /\ tool = NotCreated
    /\ call = [i \in Invocations |-> IdleCall]
    /\ net = [i \in Invocations |-> QuietNet]

\* createLeonardoTool is called with any options, under any environment
CreateTool ==
    /\ ~tool.created
    /\ \E options \in OptionsSet, env \in EnvSet : tool' = Created(options, env)
    /\ UNCHANGED <<call, net>>

\* execute is called with arguments of `paramsSet`: they are read and the POST is
\* issued
ExecuteWith(i, paramsSet) ==
    /\ tool.created /\ tool.value # None
    /\ call[i].pc = "idle"
    /\ UNCHANGED tool
    /\ \E params \in paramsSet :
         LET c == [call[i] EXCEPT !.entry = "execute", !.params = params]
         IN  IF readStringParam(params, "prompt") = None
             THEN /\ call' = [call EXCEPT ![i] = Throw(c, PromptRequiredMessage)]
                  /\ UNCHANGED net
             ELSE /\ call' = [call EXCEPT ![i] =
                                [c EXCEPT !.pc = "submit_fetch",
                                          !.body = Some(RequestBody(params))]]
                  /\ net' = [net EXCEPT ![i].posts = @ + 1]

Execute(i) == ExecuteWith(i, ParamsSet)

\* the POST resolves or rejects with an outcome of `responses`
SubmitResponseFrom(i, responses) ==
    /\ call[i].pc = "submit_fetch"
    /\ UNCHANGED tool
    /\ \E r \in responses :
         /\ call' = [call EXCEPT ![i] = OnSubmitResponse(call[i], r)]
         /\ net' = [net EXCEPT ![i].submitResponse = Some(r)]

SubmitResponse(i) == SubmitResponseFrom(i, PostResponses)

\* pollForCompletion is called alone, with any timeoutSeconds
PollCall(i) ==
    /\ call[i].pc = "idle"
    /\ \E generationId \in JobIds, timeoutSeconds \in 0..MaxTimeoutSeconds :
         call' = [call EXCEPT ![i] =
                    pollForCompletion([call[i] EXCEPT !.entry = "pollForCompletion"],
                                      generationId, timeoutSeconds)]
    /\ UNCHANGED <<tool, net>>

QueryWithoutSleep(n, target) ==
    [n EXCEPT !.queries = @ + 1, !.polled = @ \cup {target}]

\* await sleep(POLL_INTERVAL_MS), then fetch: the sleep has completed when the
\* status query for `target` goes out
SleepThenQuery(n, target) ==
    [n EXCEPT !.sleeps = @ + 1, !.queries = @ + 1, !.polled = @ \cup {target}]

\* sleep(POLL_INTERVAL_MS) resolves and the status query is issued
SleepDone(i) ==
    /\ call[i].pc = "poll_sleep"
    /\ UNCHANGED tool
    /\ call' = [call EXCEPT ![i].pc = "poll_fetch"]
    /\ net' = [net EXCEPT ![i] = SleepThenQuery(net[i], PollTarget(call[i]))]

\* the status query resolves or rejects with an outcome of `responses`
PollResponseFrom(i, responses) ==
    /\ call[i].pc = "poll_fetch"
    /\ UNCHANGED tool
    /\ \E r \in responses :
         /\ call' = [call EXCEPT ![i] = OnPollResponse(call[i], r)]
         /\ net' = [net EXCEPT ![i].lastResponse = Some(r),
                               ![i].pendingOnly = @ /\ ReportedStatus(r) = {Some("PENDING")}]

PollResponse(i) == PollResponseFrom(i, GetResponses)

\* one invocation of execute
Next == Execute(Main) \/ SubmitResponse(Main) \/ SleepDone(Main) \/ PollResponse(Main)

Spec == Init /\ [][Next]_vars

\* one outcome for every branch execute and pollForCompletion take on a response,
\* and a call with and one without a prompt
BranchParams ==
    {p \in ParamsSet : /\ p.num_images = None /\ p.width = None
                       /\ p.height = None /\ p.preset_style = None}

BranchErrorResponses ==
    {Rejected(<<"fetch failed">>), Response(500, "", JsonError),
     Response(200, "", JsonError), Response(200, "", JsonNull)}

BranchPostResponses ==
    BranchErrorResponses
    \cup {Response(200, "", JsonObject(d)) :
            d \in {[sdGenerationJob |-> None],
                   [sdGenerationJob |-> Some([generationId |-> Some("")])],
                   [sdGenerationJob |-> Some([generationId |-> Some("g1")])]}}

BranchGetResponses ==
    BranchErrorResponses
    \cup {Response(200, "", JsonObject([generations_by_pk |-> None]))}
    \cup {Response(200, "", JsonObject([generations_by_pk |->
                Some([status |-> st, generated_images |-> None])])) :
            st \in {None} \cup {Some(v) : v \in StatusValues}}
    \cup {Response(200, "", JsonObject([generations_by_pk |->
                Some([status |-> Some("COMPLETE"),
                      generated_images |-> Some(<<GeneratedImage(1, "a")>>)])]))}

NextLive ==
    \/ ExecuteWith(Main, BranchParams)
    \/ SubmitResponseFrom(Main, BranchPostResponses)
    \/ SleepDone(Main)
    \/ PollResponseFrom(Main, BranchGetResponses)

\* one invocation of execute whose awaited network calls and sleeps all complete:
\* fetch resolves, rejects or is aborted by its timeout signal, the timer fires
SpecLive ==
    /\ Init
    /\ [][NextLive]_vars
    /\ WF_vars(SubmitResponseFrom(Main, BranchPostResponses))
    /\ WF_vars(SleepDone(Main))
    /\ WF_vars(PollResponseFrom(Main, BranchGetResponses))

\* one call of pollForCompletion with an arbitrary timeoutSeconds
NextPoll == PollCall(Main) \/ SleepDone(Main) \/ PollResponse(Main)

SpecPoll == Init /\ [][NextPoll]_vars

\* the outcomes of two submissions: a failure, or one of two job identifiers
ConcurrentPostResponses ==
    {Response(500, "", JsonError)}
    \cup {Response(200, "", JsonObject([sdGenerationJob |->
                Some([generationId |-> Some(id)])])) : id \in JobIds}

\* the outcomes of their status queries: a rejection, a status that keeps the
\* call polling, FAILED, or COMPLETE with one image
ConcurrentGetResponses ==
    {r \in BranchGetResponses :
        \/ r.kind = "rejected"
        \/ ReportedStatus(r) \in {{Some("PENDING")}, {Some("QUEUED")}, {Some("FAILED")}}
        \/ ReportedStatus(r) = {Some("COMPLETE")}
             /\ r.json.data.generations_by_pk[1].generated_images # None}

\* two invocations of execute on the same tool, interleaved at their awaits: a
\* step is the continuation of one of them
NextConcurrent ==
    \E i \in Invocations :
        \/ ExecuteWith(i, BranchParams)
        \/ SubmitResponseFrom(i, ConcurrentPostResponses)
        \/ SleepDone(i)
        \/ PollResponseFrom(i, ConcurrentGetResponses)

SpecConcurrent == Init /\ [][NextConcurrent]_vars

\* the creation of the tool under any configuration and environment
NextCreate == CreateTool

SpecCreate == InitCreate /\ [][NextCreate]_vars

----------------------------------------------------------------------------
(* Vocabulary of the properties *)

\* the result shapes of execute
IsSuccess(r) == DOMAIN r = {"generationId", "imageUrls", "count"}

IsFailure(r) == DOMAIN r = {"error", "imageUrls"}

\* the outcomes of pollForCompletion called alone
IsThrown(r) == DOMAIN r = {"thrown"}

IsReturned(r) == DOMAIN r = {"returned"}

IsTimeoutMessage(message) == message[1] = "Leonardo generation timed out after "

Returned(i) == call[i].pc = "returned"

\* the last status query was served with a generation object reporting `status`
LastReported(i, status) ==
    /\ net[i].lastResponse # None
    /\ ReportedStatus(net[i].lastResponse[1]) = {Some(status)}

\* the generated_images of the last status response, <<>> when the field is missing
LastImages(i) ==
    LET generation == net[i].lastResponse[1].json.data.generations_by_pk[1]
    IN  IF generation.generated_images = None THEN <<>>
        ELSE generation.generated_images[1]

\* the last status query was answered with an HTTP status outside 200..299
LastPollHttpFailure(i) ==
    /\ net[i].lastResponse # None
    /\ net[i].lastResponse[1].kind = "response"
    /\ (net[i].lastResponse[1].status < 200 \/ net[i].lastResponse[1].status > 299)

\* the submission was answered with an HTTP status outside 200..299
SubmitHttpFailure(i) ==
    /\ net[i].submitResponse # None
    /\ net[i].submitResponse[1].kind = "response"
    /\ (net[i].submitResponse[1].status < 200 \/ net[i].submitResponse[1].status > 299)

\* the job identifiers the submission returned: at most one, none when it failed
IssuedJobIds(i) ==
    IF /\ net[i].submitResponse # None
       /\ net[i].submitResponse[1].kind = "response"
       /\ net[i].submitResponse[1].status \in 200..299
       /\ net[i].submitResponse[1].json.parse = "object"
       /\ net[i].submitResponse[1].json.data.sdGenerationJob # None
       /\ net[i].submitResponse[1].json.data.sdGenerationJob[1].generationId
            \notin {None, Some("")}
    THEN {net[i].submitResponse[1].json.data.sdGenerationJob[1].generationId[1]}
    ELSE {}

----------------------------------------------------------------------------
(* Properties *)

\* C1: execute never raises: whatever the arguments and the remote service do, a
\* finished invocation of execute holds a success result {generationId, imageUrls,
\* count} or a failure result {error, imageUrls} whose imageUrls is empty.
C1_ExecuteNeverRaises ==
    \A i \in Invocations :
        (Returned(i) /\ call[i].entry = "execute") =>
            \/ IsSuccess(call[i].result)
            \/ IsFailure(call[i].result) /\ call[i].result.imageUrls = <<>>

\* a status query was rejected (network error or abort) and execute returned a failure
C1_Witness ==
    /\ Returned(Main) /\ call[Main].entry = "execute"
    /\ net[Main].lastResponse # None
    /\ net[Main].lastResponse[1].kind = "rejected"
    /\ IsFailure(call[Main].result)

\* C2: when every status query reports PENDING until the attempt budget is
\* exhausted, pollForCompletion throws the timeout error after exactly
\* min(30, floor(timeoutSeconds*1000/2000)) status queries.
C2_PendingUntilTimeout ==
    \A i \in Invocations :
        (Returned(i) /\ call[i].entry = "pollForCompletion" /\ net[i].pendingOnly) =>
            /\ IsThrown(call[i].result)
            /\ IsTimeoutMessage(call[i].result.thrown)
            /\ net[i].queries = Min(30, (call[i].timeoutSeconds * 1000) \div 2000)

\* a timeout above the hard cap: 30 PENDING answers, then the timeout error
C2_Witness ==
    /\ Returned(Main) /\ call[Main].entry = "pollForCompletion"
    /\ net[Main].pendingOnly
    /\ call[Main].timeoutSeconds > 60
    /\ net[Main].queries = 30
    /\ IsThrown(call[Main].result)

\* C3: whatever the status responses, one call of pollForCompletion issues at most
\* min(30, floor(timeoutSeconds*1000/2000)) status queries, and the budget it
\* computed on entry is that number for the whole call.
C3_QueriesWithinBudget ==
    \A i \in Invocations :
        call[i].entry = "pollForCompletion" =>
            /\ net[i].queries <= Min(30, (call[i].timeoutSeconds * 1000) \div 2000)
            /\ call[i].maxAttempts = Min(30, (call[i].timeoutSeconds * 1000) \div 2000)

\* a caller timeout of 10 seconds: the fifth status query is the last one
C3_Witness ==
    /\ Returned(Main) /\ call[Main].entry = "pollForCompletion"
    /\ call[Main].timeoutSeconds = 10
    /\ net[Main].queries = 5
    /\ IsThrown(call[Main].result) /\ IsTimeoutMessage(call[Main].result.thrown)

\* C4: when a status query reports FAILED the invocation ends in that very step
\* with a failure result carrying no image URLs, and no step issues another status
\* query afterwards, whatever is left of the attempt budget.
C4_FailedStopsAtOnce ==
    [][\A i \in Invocations :
          (call'[i].entry = "execute" /\ LastReported(i, "FAILED")') =>
              /\ call'[i].pc = "returned"
              /\ IsFailure(call'[i].result)
              /\ call'[i].result.imageUrls = <<>>
              /\ call'[i].result.error = <<"Leonardo generation failed">>
              /\ net'[i].queries = net[i].queries]_vars

\* the second status query reports FAILED with 28 attempts left
C4_Witness ==
    /\ Returned(Main) /\ call[Main].entry = "execute"
    /\ LastReported(Main, "FAILED")
    /\ net[Main].queries = 2
    /\ call[Main].maxAttempts = 30
    /\ IsFailure(call[Main].result)

\* `out` is `in` with its empty strings removed and the order of the rest kept
IsNonEmptySubsequence(out, in) ==
    /\ \A k \in DOMAIN out : out[k] # ""
    /\ Len(out) = Cardinality({j \in DOMAIN in : in[j] # ""})
    /\ \E f \in [DOMAIN out -> DOMAIN in] :
         /\ \A k \in DOMAIN out : out[k] = in[f[k]]
         /\ \A k, l \in DOMAIN out : k < l => f[k] < f[l]

\* the URLs of the images of the last status response, in order
LastUrls(i) == [k \in DOMAIN LastImages(i) |-> LastImages(i)[k].url]

\* C5: when a status query reports COMPLETE with at least one non-empty image URL,
\* execute has returned (no further status query) a success whose imageUrls is the
\* list of the images' URLs with the empty ones removed, in the original order, and
\* whose count is the length of imageUrls.
C5_CompleteReturnsFilteredUrls ==
    \A i \in Invocations :
        (/\ call[i].entry = "execute"
         /\ LastReported(i, "COMPLETE")
         /\ \E k \in DOMAIN LastUrls(i) : LastUrls(i)[k] # "") =>
            /\ Returned(i)
            /\ IsSuccess(call[i].result)
            /\ IsNonEmptySubsequence(call[i].result.imageUrls, LastUrls(i))
            /\ call[i].result.count = Len(call[i].result.imageUrls)

\* images [a, "", b] give imageUrls [a, b] and count 2
C5_Witness ==
    /\ Returned(Main) /\ call[Main].entry = "execute"
    /\ LastReported(Main, "COMPLETE")
    /\ LastUrls(Main) = <<"a", "", "b">>
    /\ IsSuccess(call[Main].result)
    /\ call[Main].result.imageUrls = <<"a", "b">>
    /\ call[Main].result.count = 2

\* C6: when a status query reports COMPLETE with no generated_images field, no
\* image, or only empty URLs, execute has returned the "no image URLs" failure; and
\* no success result carries an empty imageUrls list.
C6_CompleteWithoutUrlsFails ==
    \A i \in Invocations :
        call[i].entry = "execute" =>
            /\ (/\ LastReported(i, "COMPLETE")
                /\ \A k \in DOMAIN LastUrls(i) : LastUrls(i)[k] = "") =>
                   /\ Returned(i)
                   /\ IsFailure(call[i].result)
                   /\ call[i].result.error =
                        <<"Leonardo generation complete but no image URLs returned">>
                   /\ call[i].result.imageUrls = <<>>
            /\ (Returned(i) /\ IsSuccess(call[i].result)) =>
                   call[i].result.imageUrls # <<>>

\* COMPLETE with two images whose URLs are both empty
C6_Witness ==
    /\ Returned(Main) /\ call[Main].entry = "execute"
    /\ LastReported(Main, "COMPLETE")
    /\ LastUrls(Main) = <<"", "">>
    /\ IsFailure(call[Main].result)

\* C7: when the submission is answered with a non-success HTTP status, execute has
\* returned a failure whose message contains that status code, and no status query
\* is ever issued.
C7_SubmitHttpErrorFails ==
    \A i \in Invocations :
        SubmitHttpFailure(i) =>
            /\ Returned(i)
            /\ IsFailure(call[i].result)
            /\ Contains(call[i].result.error, ToString(net[i].submitResponse[1].status))
            /\ net[i].queries = 0
            /\ net[i].sleeps = 0

\* the submission is answered 500
C7_Witness ==
    /\ Returned(Main)
    /\ SubmitHttpFailure(Main)
    /\ net[Main].submitResponse[1].status = 500
    /\ IsFailure(call[Main].result)
    /\ Contains(call[Main].result.error, "500")

\* C8: an invocation whose submission returned a job identifier has issued at least
\* one status query by the time it returns a result, success or failure.
C8_NoResultWithoutPolling ==
    \A i \in Invocations :
        (Returned(i) /\ call[i].entry = "execute" /\ IssuedJobIds(i) # {}) =>
            net[i].queries >= 1

\* a job identifier was returned and the invocation returned after one status query
C8_Witness ==
    /\ Returned(Main) /\ call[Main].entry = "execute"
    /\ IssuedJobIds(Main) # {}
    /\ net[Main].queries = 1

\* C9: when a status query is answered with a non-success HTTP status the
\* invocation ends in that very step with a failure whose message carries the status
\* code, and no step issues another status query afterwards: the poll is not retried.
C9_PollHttpErrorStopsAtOnce ==
    [][\A i \in Invocations :
          (call'[i].entry = "execute" /\ LastPollHttpFailure(i)') =>
              /\ call'[i].pc = "returned"
              /\ IsFailure(call'[i].result)
              /\ Contains(call'[i].result.error,
                          ToString(net'[i].lastResponse[1].status))
              /\ net'[i].queries = net[i].queries]_vars

\* the first status query is answered 500 with 29 attempts left
C9_Witness ==
    /\ Returned(Main) /\ call[Main].entry = "execute"
    /\ LastPollHttpFailure(Main)
    /\ net[Main].lastResponse[1].status = 500
    /\ net[Main].queries = 1
    /\ call[Main].maxAttempts = 30
    /\ Contains(call[Main].result.error, "500")

\* C10: every status query of an invocation is addressed to the job identifier its
\* submission returned, the identifier pollForCompletion holds is that one for the
\* whole poll, and the generationId of a success result is that identifier.
C10_PollsOwnJob ==
    \A i \in Invocations :
        call[i].entry = "execute" =>
            /\ net[i].polled \subseteq IssuedJobIds(i)
            /\ call[i].pollGenerationId # None =>
                   IssuedJobIds(i) = {call[i].pollGenerationId[1]}
            /\ (Returned(i) /\ IsSuccess(call[i].result)) =>
                   IssuedJobIds(i) = {call[i].result.generationId}

\* the service issued job g2, several queries asked about g2, success names g2
C10_Witness ==
    /\ Returned(Main) /\ call[Main].entry = "execute"
    /\ IssuedJobIds(Main) = {"g2"}
    /\ net[Main].polled = {"g2"}
    /\ net[Main].queries >= 3
    /\ IsSuccess(call[Main].result)
    /\ call[Main].result.generationId = "g2"

\* C11: the body of the submission carries the caller's num_images, width, height
\* and preset_style as given, the defaults 1, 1024, 1024 and FASHION for the
\* arguments left out, and the prompt unchanged.
C11_BodyCarriesArguments ==
    \A i \in Invocations :
        call[i].body # None =>
            LET params == call[i].params
                body == call[i].body[1]
            IN  /\ net[i].posts = 1
                /\ body.prompt = params.prompt[1]
                /\ body.num_images =
                     IF params.num_images = None THEN 1 ELSE params.num_images[1]
                /\ body.width = IF params.width = None THEN 1024 ELSE params.width[1]
                /\ body.height = IF params.height = None THEN 1024 ELSE params.height[1]
                /\ body.presetStyle =
                     IF params.preset_style = None THEN "FASHION"
                     ELSE params.preset_style[1]

\* num_images 2, width 512, height 768 and CINEMATIC given explicitly and submitted
C11_Witness ==
    /\ call[Main].body # None
    /\ call[Main].params.num_images = Some(2)
    /\ call[Main].params.width = Some(512)
    /\ call[Main].params.height = Some(768)
    /\ call[Main].params.preset_style = Some("CINEMATIC")
    /\ call[Main].body[1] =
         [prompt |-> Prompt, num_images |-> 2, width |-> 512, height |-> 768,
          presetStyle |-> "CINEMATIC"]

\* the string has a character that is not whitespace
NonBlank(str) == \E k \in DOMAIN str : str[k] # " "

\* the string from its first to its last non-whitespace character
Trimmed(str) ==
    LET ks == {k \in DOMAIN str : str[k] # " "}
        first == CHOOSE k \in ks : \A l \in ks : k <= l
        last == CHOOSE k \in ks : \A l \in ks : l <= k
    IN  SubSeq(str, first, last)

\* tools.leonardo.apiKey of the options, None when any level is missing
ConfiguredKey(options) ==
    IF options = None THEN None
    ELSE IF options[1].config = None THEN None
    ELSE IF options[1].config[1].tools = None THEN None
    ELSE IF options[1].config[1].tools[1].leonardo = None THEN None
    ELSE options[1].config[1].tools[1].leonardo[1].apiKey

\* C12: createLeonardoTool uses the configured tools.leonardo.apiKey (trimmed)
\* whenever it is not blank, whatever the environment holds; it uses the
\* environment variable (trimmed) only when the configured key is absent or blank;
\* and it returns null, without raising, when neither gives a non-blank key.
C12_CredentialResolution ==
    tool.created =>
        LET configured == ConfiguredKey(tool.options)
        IN  IF configured # None /\ NonBlank(configured[1])
            THEN tool.value # None /\ tool.value[1].apiKey = Trimmed(configured[1])
            ELSE IF tool.env # None /\ NonBlank(tool.env[1])
            THEN tool.value # None /\ tool.value[1].apiKey = Trimmed(tool.env[1])
            ELSE tool.value = None

\* a padded configured key wins over a different key in the environment
C12_Witness ==
    /\ tool.created
    /\ ConfiguredKey(tool.options) = Some(<<" ", "k">>)
    /\ tool.env = Some(<<"e">>)
    /\ tool.value # None
    /\ tool.value[1].apiKey = <<"k">>

\* the attempt budget of the call is exhausted: the timeout error was thrown
TimedOut(i) ==
    /\ Returned(i)
    /\ IF call[i].entry = "execute"
       THEN IsFailure(call[i].result) /\ IsTimeoutMessage(call[i].result.error)
       ELSE IsThrown(call[i].result) /\ IsTimeoutMessage(call[i].result.thrown)

\* the seconds figure of the timeout message
TimedOutSeconds(i) ==
    IF call[i].entry = "execute" THEN call[i].result.error[2] ELSE call[i].result.thrown[2]

\* C13 as stated: when the budget is exhausted the effective wait, cycles times 2
\* seconds, which is the figure of the timeout message, is min(timeoutSeconds, 60).
C13_WaitIsMinOfTimeoutAndCap ==
    \A i \in Invocations :
        TimedOut(i) =>
            /\ 2 * net[i].sleeps = Min(call[i].timeoutSeconds, 30 * 2)
            /\ TimedOutSeconds(i) = ToString(Min(call[i].timeoutSeconds, 30 * 2))

\* C13 amended: when the budget is exhausted the effective wait, cycles times 2
\* seconds, which is the figure of the timeout message, is min(timeoutSeconds, 60)
\* rounded down to a whole number of 2-second cycles.
C13_WaitIsWholeCycles ==
    \A i \in Invocations :
        TimedOut(i) =>
            LET limit == Min(call[i].timeoutSeconds, 30 * 2)
                wait == limit - (limit % 2)
            IN  /\ 2 * net[i].sleeps = wait
                /\ 2 * net[i].queries = wait
                /\ TimedOutSeconds(i) = ToString(wait)

\* a timeout of 5 seconds: two cycles, and the message says 4 seconds
C13_Witness ==
    /\ TimedOut(Main)
    /\ call[Main].timeoutSeconds = 5
    /\ net[Main].sleeps = 2
    /\ TimedOutSeconds(Main) = "4"

\* the last status query was served with a payload of the wrong shape: no
\* generations_by_pk object, or one without a status field
LastMalformed(i) ==
    /\ net[i].lastResponse # None
    /\ net[i].lastResponse[1].kind = "response"
    /\ net[i].lastResponse[1].status \in 200..299
    /\ net[i].lastResponse[1].json.parse = "object"
    /\ \/ net[i].lastResponse[1].json.data.generations_by_pk = None
       \/ net[i].lastResponse[1].json.data.generations_by_pk[1].status = None

\* C14: when a status response lacks the generations_by_pk object, or carries one
\* without a status field, the invocation ends in that very step with a failure and
\* no step issues another status query afterwards.
C14_MalformedStopsAtOnce ==
    [][\A i \in Invocations :
          (call'[i].entry = "execute" /\ LastMalformed(i)') =>
              /\ call'[i].pc = "returned"
              /\ IsFailure(call'[i].result)
              /\ net'[i].queries = net[i].queries]_vars

\* the last status query reported a status value that is neither COMPLETE nor FAILED
LastNonTerminal(i) ==
    \E s \in StatusValues \ {"COMPLETE", "FAILED"} : LastReported(i, s)

\* C15: a status value other than COMPLETE and FAILED, PENDING or not, keeps the
\* call waiting: while such a response is the last one received, the call is at the
\* sleep of the next cycle with attempts left, or has its next status query in
\* flight, or has thrown the timeout error after the full budget of
\* min(30, floor(timeoutSeconds*1000/2000)) queries; it never ends in a success or
\* in another failure.
C15_UnknownStatusKeepsPolling ==
    \A i \in Invocations :
        LastNonTerminal(i) =>
            LET budget == Min(30, (call[i].timeoutSeconds * 1000) \div 2000)
            IN  \/ call[i].pc = "poll_sleep" /\ net[i].queries < budget
                \/ call[i].pc = "poll_fetch" /\ net[i].queries <= budget
                \/ TimedOut(i) /\ net[i].queries = budget

\* only QUEUED was ever reported: the timeout error after the 30 queries of the cap
C15_Witness ==
    /\ TimedOut(Main)
    /\ LastReported(Main, "QUEUED")
    /\ ~net[Main].pendingOnly
    /\ call[Main].timeoutSeconds = 60
    /\ net[Main].queries = 30

\* C16: every status query, the first one included, goes out in the step in which
\* exactly one 2000 ms sleep completes; the completed sleeps are as many as the
\* status queries issued or one more; and once the invocation has returned, after a
\* terminal response or the last budgeted query, no sleep is left over or follows.
C16_SleepBeforeEveryQuery ==
    [][\A i \in Invocations :
          /\ net'[i].queries # net[i].queries =>
                /\ call[i].pc = "poll_sleep"
                /\ net'[i].queries = net[i].queries + 1
                /\ net'[i].sleeps = net[i].sleeps + 1
          /\ net'[i].sleeps # net[i].sleeps => net'[i].queries = net[i].queries + 1
          /\ net'[i].sleeps \in {net'[i].queries, net'[i].queries + 1}
          /\ Returned(i)' => net'[i].sleeps = net'[i].queries
          /\ Returned(i) => net'[i].sleeps = net[i].sleeps]_vars

\* the third status query is in flight after three sleeps
C16_Witness ==
    /\ call[Main].entry = "execute"
    /\ call[Main].pc = "poll_fetch"
    /\ net[Main].queries = 3
    /\ net[Main].sleeps = 3

\* the submission was answered with a success status
SubmitServed(i) ==
    /\ net[i].submitResponse # None
    /\ net[i].submitResponse[1].kind = "response"
    /\ net[i].submitResponse[1].status \in 200..299

\* C17: when the submission is answered with a success status but no non-empty
\* sdGenerationJob.generationId, execute has returned a failure, the "no
\* generationId" error when the body is a JSON object, without any sleep or status
\* query; and no status query is ever issued unless the submission returned a job
\* identifier.
C17_NoHandleNoPolling ==
    \A i \in Invocations :
        call[i].entry = "execute" =>
            /\ (SubmitServed(i) /\ IssuedJobIds(i) = {}) =>
                  /\ Returned(i)
                  /\ IsFailure(call[i].result)
                  /\ net[i].submitResponse[1].json.parse = "object" =>
                        call[i].result.error = <<"Leonardo: no generationId in response">>
                  /\ net[i].queries = 0
                  /\ net[i].sleeps = 0
            /\ (net[i].queries > 0 \/ call[i].pc \in {"poll_sleep", "poll_fetch"}) =>
                  IssuedJobIds(i) # {}

\* the submission is answered 200 with an empty generationId
C17_Witness ==
    /\ Returned(Main)
    /\ SubmitServed(Main)
    /\ net[Main].submitResponse[1].json.parse = "object"
    /\ net[Main].submitResponse[1].json.data.sdGenerationJob = Some([generationId |-> Some("")])
    /\ IsFailure(call[Main].result)
    /\ net[Main].queries = 0

\* C18: every submitted body has num_images in 1..4 and width and height positive
\* multiples of 8 that are at most 1536, whatever numbers the caller passes.
C18_BodyWithinLimits ==
    \A i \in Invocations :
        call[i].body # None =>
            LET body == call[i].body[1]
            IN  /\ body.num_images \in 1..4
                /\ body.width > 0 /\ body.width % 8 = 0 /\ body.width <= 1536
                /\ body.height > 0 /\ body.height % 8 = 0 /\ body.height <= 1536

\* the invocation has been called and has not returned
Running(i) == call[i].pc \in {"submit_fetch", "poll_sleep", "poll_fetch"}

\* C19 as stated, its part about the calls made: an invocation of execute that has
\* returned has made exactly one submission call and at most 30 poll cycles.
C19_ExactlyOneSubmission ==
    \A i \in Invocations :
        (Returned(i) /\ call[i].entry = "execute") =>
            /\ net[i].posts = 1
            /\ net[i].queries <= 30

\* C19 amended: when every network call and every sleep completes, an invocation of
\* execute eventually returns a result; it has then made at most one submission call
\* (exactly one when a prompt was given, none when the prompt is missing) and at
\* most 30 poll cycles; and it makes no network call and starts no sleep afterwards.
C19_ReturnsWithinBudget ==
    /\ \A i \in Invocations : Running(i) ~> Returned(i)
    /\ [](\A i \in Invocations :
            /\ net[i].posts <= 1
            /\ net[i].queries <= 30
            /\ (Returned(i) /\ call[i].entry = "execute") =>
                  net[i].posts = IF call[i].params.prompt = None THEN 0 ELSE 1)
    /\ [][\A i \in Invocations : Returned(i) => (net'[i] = net[i] /\ Returned(i)')]_vars

\* the timeout result after the submission and all 30 poll cycles
C19_Witness ==
    /\ TimedOut(Main) /\ call[Main].entry = "execute"
    /\ net[Main].posts = 1
    /\ net[Main].queries = 30


\* C20: two invocations of execute on one tool, interleaved at their sleeps and
\* awaited network calls, do not touch each other: a step changes the locals and
\* the network calls of one invocation only; each queries only the job its own
\* submission returned; its attempt counter counts its own status queries and
\* nothing else, so it times out after its own 30 queries, never earlier, and
\* stops before that only on a terminal answer to its own query; and a success
\* carries its own job identifier and the URLs of its own last status response.
C20_InvocationsIndependent ==
    /\ [](\A i \in Invocations :
            call[i].entry = "execute" =>
                /\ net[i].polled \subseteq IssuedJobIds(i)
                /\ net[i].queries <= 30
                /\ call[i].pc = "poll_sleep" => call[i].attempt = net[i].queries
                /\ call[i].pc = "poll_fetch" => call[i].attempt = net[i].queries - 1
                /\ TimedOut(i) => net[i].queries = 30
                /\ (Returned(i) /\ ~TimedOut(i) /\ net[i].queries > 0) =>
                       ~LastNonTerminal(i)
                /\ (Returned(i) /\ IsSuccess(call[i].result)) =>
                       /\ IssuedJobIds(i) = {call[i].result.generationId}
                       /\ LastReported(i, "COMPLETE")
                       /\ IsNonEmptySubsequence(call[i].result.imageUrls, LastUrls(i)))
    /\ [][\E i \in Invocations :
            \A j \in Invocations \ {i} : call'[j] = call[j] /\ net'[j] = net[j]]_vars

\* the first invocation has returned the images of job g1 after two status
\* queries while the second one, submitted as job g2, has its seventh in flight
C20_Witness ==
    /\ \A i \in Invocations : call[i].entry = "execute"
    /\ Returned(Main) /\ IsSuccess(call[Main].result)
    /\ call[Main].result.generationId = "g1"
    /\ net[Main].queries = 2
    /\ \E j \in Invocations \ {Main} :
         /\ call[j].pc = "poll_fetch"
         /\ net[j].polled = {"g2"}
         /\ net[j].queries = 7
         /\ call[j].attempt = 6

====
